---- MODULE Spec2Model ----
(***************************************************************************)
(* Job-posting extractor: the extract-to-excel batch route, the            *)
(* preview-extraction route and the structuring client they share.         *)
(*                                                                         *)
(* Strings are sequences of tokens.  A token is either one character of    *)
(* variable text ("x", "p", "{", "}") or one literal of the source.       *)
(***************************************************************************)
EXTENDS Naturals, Sequences, FiniteSets, TLC

(* ------------------------------ bounds -------------------------------- *)
MaxUrls == 2
MaxReplyLen == 5

(* ------------------------- program constants -------------------------- *)
ExcerptLen == 1000
DelayMs == 1000

(* ------------------------------ strings ------------------------------- *)
Null == <<"<null>">>
Absent == <<"<undefined>">>
EmptyStr == <<>>

\* a text of n characters, its characters cycling through seven letters
Str(n) == [k \in 1..n |-> ToString(k % 7)]

\* String.prototype.substring(0, n)
Substring(s, n) == IF Len(s) <= n THEN s ELSE SubSeq(s, 1, n)

\* JavaScript truthiness of a string-or-missing value
Truthy(v) == v # Null /\ v # Absent /\ v # EmptyStr

StartsWith(s, prefix) ==
    /\ Len(s) >= Len(prefix)
    /\ SubSeq(s, 1, Len(prefix)) = prefix

(* --------------------------- request inputs --------------------------- *)
Urls == {EmptyStr, <<"a">>, <<"b">>}
ApiKeys == {Absent, EmptyStr, <<"k">>}

RECURSIVE SeqsUpTo(_, _)
SeqsUpTo(S, n) ==
    IF n = 0 THEN {<<>>}
    ELSE LET shorter == SeqsUpTo(S, n - 1)
         IN shorter \cup {Append(s, x) : s \in {t \in shorter : Len(t) = n - 1}, x \in S}

\* the "urls" member of the batch request body: missing, a non-array value, or an array
UrlsInputs ==
    {[tag |-> "absent", items |-> <<>>], [tag |-> "scalar", items |-> <<>>]}
    \cup {[tag |-> "list", items |-> l] : l \in SeqsUpTo(Urls, MaxUrls)}

(* ------------------------------ errors -------------------------------- *)
\* what a rejected await throws: an AxiosError with a response status, an AxiosError
\* without response (status 0: timeout, connection refused), or a plain Error
HttpStatuses == {401, 402, 429, 500}

HttpError(s, apiMsg) ==
    [axios |-> TRUE, status |-> s,
     message |-> <<"Request failed with status code ", ToString(s)>>,
     apiMsg |-> apiMsg]

TimeoutError ==
    [axios |-> TRUE, status |-> 0, message |-> <<"timeout of 10000ms exceeded">>,
     apiMsg |-> EmptyStr]

PlainError(msg) == [axios |-> FALSE, status |-> 0, message |-> msg, apiMsg |-> EmptyStr]

\* error.response?.data?.error?.message || error.message
ApiErrorMessage(err) == IF err.apiMsg # EmptyStr THEN err.apiMsg ELSE err.message

FetchErrors ==
    {HttpError(s, EmptyStr) : s \in HttpStatuses}
    \cup {TimeoutError, PlainError(<<"Invalid URL">>)}

PostErrors ==
    {HttpError(s, EmptyStr) : s \in HttpStatuses}
    \cup {HttpError(500, <<"upstream overloaded">>), TimeoutError}

(* ------------------- structuring client: reply handling --------------- *)
\* A reply of the structuring service is a string over ReplyChars: "{" and "}" are
\* braces, "p" is a character of prose, "F" is the text of the member list of a
\* complete answer (every field of the schema, its nested braces balanced inside it).
\* A "{" in member position opens a nested object under a key outside the schema.
ReplyChars == {"{", "}", "p", "F"}

Indexes(s, c) == {k \in 1..Len(s) : s[k] = c}

Min(S) == CHOOSE x \in S : \A y \in S : x <= y
Max(S) == CHOOSE x \in S : \A y \in S : x >= y

\* the match made lazy, /\{[\s\S]*?\}/: leftmost "{" up to the first "}" after it
JsonMatchLazy(s) ==
    LET opens == Indexes(s, "{")
        closes == Indexes(s, "}")
    IN IF opens = {} \/ closes = {} \/ Max(closes) < Min(opens)
       THEN [found |-> FALSE, text |-> EmptyStr]
       ELSE [found |-> TRUE,
             text |-> SubSeq(s, Min(opens), Min({c \in closes : c > Min(opens)}))]

\* aiResponse.match(/\{[\s\S]*\}/): leftmost "{", then greedily up to the last "}"
JsonMatch(s) ==
    LET opens == Indexes(s, "{")
        closes == Indexes(s, "}")
    IN IF opens = {} \/ closes = {} \/ Max(closes) < Min(opens)
       THEN [found |-> FALSE, text |-> EmptyStr]
       ELSE [found |-> TRUE, text |-> SubSeq(s, Min(opens), Max(closes))]

\* nesting depth after the first k characters
RECURSIVE Depth(_, _)
Depth(s, k) ==
    IF k = 0 THEN 0
    ELSE LET d == Depth(s, k - 1)
         IN IF s[k] = "{" THEN d + 1
            ELSE IF s[k] = "}" THEN (IF d = 0 THEN 0 ELSE d - 1)
            ELSE d

\* the longest prefix closes exactly one object and nothing closes below depth 0
Balanced(s) ==
    /\ Len(s) >= 2
    /\ s[1] = "{"
    /\ s[Len(s)] = "}"
    /\ \A k \in 1..(Len(s) - 1) : Depth(s, k) >= 1
    /\ Cardinality(Indexes(s, "{")) = Cardinality(Indexes(s, "}"))

\* the object a complete answer describes (lines 80-101 of the prompt)
FullObject ==
    [jobTitle |-> <<"Engineer">>,
     companyName |-> <<"Acme">>,
     location |-> <<"Tokyo">>,
     salary |-> [min |-> <<"30">>, max |-> <<"50">>, type |-> <<"monthly">>,
                 details |-> <<"bonus">>],
     workingHours |-> <<"9-18">>,
     holidays |-> <<"weekends">>,
     benefits |-> << <<"insurance">> >>,
     requirements |-> [experience |-> <<"3y">>, skills |-> << <<"ts">> >>,
                       education |-> Null],
     jobDescription |-> <<"builds things">>,
     applicationMethod |-> <<"web">>,
     employmentType |-> <<"full-time">>]

\* JSON.parse of a matched region: an object, or a SyntaxError
JsonParse(text) ==
    IF Balanced(text) /\ \A k \in 1..Len(text) : text[k] # "p"
    THEN [ok |-> TRUE,
          obj |-> IF \E k \in 1..Len(text) : text[k] = "F" /\ Depth(text, k) = 1
                  THEN FullObject ELSE <<>>]
    ELSE [ok |-> FALSE, obj |-> <<>>]

NoJsonMessage == <<"No valid JSON found in AI response">>
SyntaxErrorMessage == <<"Unexpected token in JSON">>
TypeErrorMessage == <<"Cannot read properties of null">>

\* the result of axios.post as structureJobData sees it
PostOk(reply) == [ok |-> TRUE, reply |-> reply, err |-> PlainError(EmptyStr)]
PostFailed(err) == [ok |-> FALSE, reply |-> EmptyStr, err |-> err]

\* ParseReply without the test of the match: jsonMatch[0] of null is a TypeError
ParseReplyUnchecked(post) ==
    IF ~post.ok THEN [ok |-> FALSE, obj |-> <<>>, err |-> post.err]
    ELSE IF post.reply = Null
    THEN [ok |-> FALSE, obj |-> <<>>, err |-> PlainError(TypeErrorMessage)]
    ELSE LET m == JsonMatch(post.reply)
             j == JsonParse(m.text)
         IN IF ~m.found
            THEN [ok |-> FALSE, obj |-> <<>>, err |-> PlainError(TypeErrorMessage)]
            ELSE IF j.ok
            THEN [ok |-> TRUE, obj |-> j.obj, err |-> PlainError(EmptyStr)]
            ELSE [ok |-> FALSE, obj |-> <<>>, err |-> PlainError(SyntaxErrorMessage)]

\* lines 129-143 / 690-704: the object built from the reply, or the error thrown
ParseReply(post) ==
    IF ~post.ok THEN [ok |-> FALSE, obj |-> <<>>, err |-> post.err]
    ELSE IF post.reply = Null
    THEN [ok |-> FALSE, obj |-> <<>>, err |-> PlainError(TypeErrorMessage)]
    ELSE LET m == JsonMatch(post.reply)
         IN IF ~m.found
            THEN [ok |-> FALSE, obj |-> <<>>, err |-> PlainError(NoJsonMessage)]
            ELSE LET j == JsonParse(m.text)
                 IN IF j.ok
                    THEN [ok |-> TRUE, obj |-> j.obj, err |-> PlainError(EmptyStr)]
                    ELSE [ok |-> FALSE, obj |-> <<>>,
                          err |-> PlainError(SyntaxErrorMessage)]

\* Merge that forgets the timestamp
MergeNoTimestamp(obj, url, now) == [url |-> url] @@ obj

\* { ...structuredData, url, extractedAt: new Date().toISOString() }
Merge(obj, url, now) == [url |-> url, extractedAt |-> now] @@ obj

(* -------------------------- degraded records --------------------------- *)
\* The Japanese literals of the source are written in ASCII, tagged [ja].
\* lines 148-166: the message structureJobData's catch derives from the error
StructureErrorMessage(err) ==
    IF err.axios
    THEN IF err.status = 402 THEN <<"OpenRouter API: [ja] insufficient balance">>
         ELSE IF err.status = 401 THEN <<"OpenRouter API: [ja] API key invalid">>
         ELSE IF err.status = 429 THEN <<"OpenRouter API: [ja] rate limit reached">>
         ELSE IF err.status # 0
         THEN <<"OpenRouter API [ja] error (", ToString(err.status), "): ">>
              \o ApiErrorMessage(err)
         ELSE <<"[ja] network error: ">> \o err.message
    ELSE err.message

\* lines 314-333: the message the loop's catch derives from the error
LoopErrorMessage(err) ==
    IF err.axios
    THEN IF err.status = 402
         THEN <<"OpenRouter API: Payment required. Please check your account balance.">>
         ELSE IF err.status = 401 THEN <<"OpenRouter API: Invalid API key.">>
         ELSE IF err.status = 429
         THEN <<"OpenRouter API: Rate limit exceeded. Please try again later.">>
         ELSE IF err.status # 0
         THEN <<"OpenRouter API Error (", ToString(err.status), "): ">>
              \o ApiErrorMessage(err)
         ELSE <<"Network error: ">> \o err.message
    ELSE err.message

StructureMarker == <<"[[ja] AI structuring error]">>
RawDataMarker == <<"<LF><LF>[[ja] extracted raw data]<LF>">>
Ellipsis == <<"...">>
LoopMarker == <<"Error processing URL: ">>

\* lines 169-192 and 336-350: every schema field null or empty but jobDescription
EmptyJob(jobDescription, url, now) ==
    [jobTitle |-> Null,
     companyName |-> Null,
     location |-> Null,
     salary |-> [min |-> Null, max |-> Null, type |-> Null, details |-> Null],
     workingHours |-> Null,
     holidays |-> Null,
     benefits |-> <<>>,
     requirements |-> [experience |-> Null, skills |-> <<>>, education |-> Null],
     jobDescription |-> jobDescription,
     applicationMethod |-> Null,
     employmentType |-> Null,
     url |-> url,
     extractedAt |-> now]

\* line 187 with the truncation marker appended from ExcerptLen characters on
StructureDiagnosticOffByOne(err, content) ==
    StructureMarker \o StructureErrorMessage(err) \o RawDataMarker
    \o Substring(content, ExcerptLen)
    \o (IF Len(content) >= ExcerptLen THEN Ellipsis ELSE <<>>)

\* line 187
StructureDiagnostic(err, content) ==
    StructureMarker \o StructureErrorMessage(err) \o RawDataMarker
    \o Substring(content, ExcerptLen)
    \o (IF Len(content) > ExcerptLen THEN Ellipsis ELSE <<>>)

\* line 345 without the literal in front of the message
LoopDiagnosticBare(err) == LoopErrorMessage(err)

\* line 345
LoopDiagnostic(err) == LoopMarker \o LoopErrorMessage(err)

\* structureJobData of the batch route (lines 71-194): never throws
StructureJobData(content, url, post, now) ==
    LET r == ParseReply(post)
    IN IF r.ok THEN Merge(r.obj, url, now)
       ELSE EmptyJob(StructureDiagnostic(r.err, content), url, now)

\* a catch that keeps the default message instead of classifying the error
LoopDegradedUnclassified(err, url, now) ==
    EmptyJob(LoopMarker \o <<"Unknown error">>, url, now)

\* the record the loop's catch appends (lines 312-350)
LoopDegraded(err, url, now) == EmptyJob(LoopDiagnostic(err), url, now)

(* --------------------------- content extractor ------------------------- *)
\* A page body is a sequence of nodes. A node is a text node (tag "#text") or an
\* element with child nodes; an element's tag stands for the selector it matches.
TextNode(t) == [tag |-> "#text", text |-> t, kids |-> <<>>]
Element(tag, kids) == [tag |-> tag, text |-> EmptyStr, kids |-> kids]

\* line 40: of the removed selectors, nav
NoiseTags == {"nav"}

\* lines 43-52: of the eight content selectors, the first and the seventh, in
\* list order
ContentSelectors == <<"main", "article">>

\* characters \s matches: the space and the line feed, written <LF>
Whitespace == {" ", "<LF>"}

\* $(...).remove(): the nodes without the removed elements and their subtrees
RECURSIVE RemoveNoise(_)
RemoveNoise(nodes) ==
    IF Len(nodes) = 0 THEN <<>>
    ELSE IF Head(nodes).tag \in NoiseTags THEN RemoveNoise(Tail(nodes))
    ELSE <<[Head(nodes) EXCEPT !.kids = RemoveNoise(@)]>> \o RemoveNoise(Tail(nodes))

\* .text() of a set of elements: the text of each element, descendants included,
\* one after the other
RECURSIVE TextOf(_)
TextOf(nodes) ==
    IF Len(nodes) = 0 THEN EmptyStr
    ELSE (IF Head(nodes).tag = "#text" THEN Head(nodes).text
          ELSE TextOf(Head(nodes).kids))
         \o TextOf(Tail(nodes))

\* $(selector): every element that matches, in document order, whether or not it
\* lies inside another match
RECURSIVE Select(_, _)
Select(nodes, selector) ==
    IF Len(nodes) = 0 THEN <<>>
    ELSE (IF Head(nodes).tag = selector THEN <<Head(nodes)>> ELSE <<>>)
         \o Select(Head(nodes).kids, selector)
         \o Select(Tail(nodes), selector)

\* the positions of s that hold a character outside the class, in order
PositionsOutside(s, class) ==
    SelectSeq([k \in 1..Len(s) |-> k], LAMBDA k : s[k] \notin class)

TrimStart(s) ==
    LET kept == PositionsOutside(s, Whitespace)
    IN IF Len(kept) = 0 THEN EmptyStr ELSE SubSeq(s, kept[1], Len(s))

TrimEnd(s) ==
    LET kept == PositionsOutside(s, Whitespace)
    IN IF Len(kept) = 0 THEN EmptyStr ELSE SubSeq(s, 1, kept[Len(kept)])

\* String.prototype.trim
Trim(s) == TrimEnd(TrimStart(s))

\* .replace(run, by) for a run of one or more characters of a class: every
\* character outside the class stays, every run leaves one replacement where it ends
ReplaceRuns(s, class, by) ==
    LET ends == SelectSeq([k \in 1..Len(s) |-> k],
                          LAMBDA k : \/ s[k] \notin class
                                     \/ k = Len(s)
                                     \/ s[k + 1] \notin class)
    IN [j \in 1..Len(ends) |-> IF s[ends[j]] \in class THEN by ELSE s[ends[j]]]

\* lines 65-68: .replace(/\s+/g, ' ').replace(/\n+/g, '\n').trim()
CleanContent(s) == Trim(ReplaceRuns(ReplaceRuns(s, Whitespace, " "), {"<LF>"}, "<LF>"))

\* $(selector).text().trim()
Candidate(nodes, selector) == Trim(TextOf(Select(nodes, selector)))

NoContent == [text |-> EmptyStr, selector |-> "none"]

\* the loop that keeps the first non-empty candidate it meets
RECURSIVE MainContentFirstMatch(_, _)
MainContentFirstMatch(nodes, n) ==
    IF n = 0 THEN NoContent
    ELSE LET mainContent == MainContentFirstMatch(nodes, n - 1)
             candidate == Candidate(nodes, ContentSelectors[n])
         IN IF candidate # EmptyStr /\ mainContent.text = EmptyStr
            THEN [text |-> candidate, selector |-> ContentSelectors[n]]
            ELSE mainContent

\* lines 54-59: mainContent after the first n selectors of the list, with the
\* selector it was taken from
RECURSIVE MainContent(_, _)
MainContent(nodes, n) ==
    IF n = 0 THEN NoContent
    ELSE LET mainContent == MainContent(nodes, n - 1)
             candidate == Candidate(nodes, ContentSelectors[n])
         IN IF candidate # EmptyStr /\ Len(candidate) > Len(mainContent.text)
            THEN [text |-> candidate, selector |-> ContentSelectors[n]]
            ELSE mainContent

NoExtraction == [content |-> Absent, selector |-> "none"]

\* lines 39-68 and 546-577: the content of a page whose body is the given nodes
ExtractContent(nodes) ==
    LET cleaned == RemoveNoise(nodes)
        found == MainContent(cleaned, Len(ContentSelectors))
        mainContent == IF found.text = EmptyStr
                       THEN [text |-> Trim(TextOf(cleaned)), selector |-> "body"]
                       ELSE found
    IN [content |-> CleanContent(mainContent.text), selector |-> mainContent.selector]

\* lines 547-548, 857: the number of sub-headings kept; line 850: the longest content
\* the extract route returns whole
SubHeadingCap == 5
ContentLimit == 3000

\* Array.prototype.slice(0, n)
Slice(items, n) == IF Len(items) <= n THEN items ELSE SubSeq(items, 1, n)

\* the elements of the body: cheerio.load puts a top-level title element in the head
BodyNodes(nodes) == SelectSeq(nodes, LAMBDA node : node.tag # "title")

\* $('title').text().trim()
TitleText(nodes) == Trim(TextOf(Select(nodes, "title")))

\* $('h1').first().text().trim()
FirstHeading(nodes) ==
    IF Len(Select(nodes, "h1")) = 0 THEN EmptyStr
    ELSE Trim(TextOf(<<Select(nodes, "h1")[1]>>))

\* $('h2').map((_, el) => $(el).text().trim()).get()
SubHeadings(nodes) ==
    [k \in 1..Len(Select(nodes, "h2")) |-> Trim(TextOf(<<Select(nodes, "h2")[k]>>))]

\* lines 546-584: what extractContentFromUrl of the preview route returns
PreviewExtraction(nodes) ==
    LET cleaned == RemoveNoise(nodes)
        cleanContent == ExtractContent(BodyNodes(nodes)).content
    IN [title |-> TitleText(cleaned),
        h1 |-> FirstHeading(cleaned),
        h2Elements |-> Slice(SubHeadings(cleaned), SubHeadingCap),
        content |-> cleanContent,
        contentLength |-> Len(cleanContent)]

\* lines 720-724: rawData: { ...rawData, url }
PreviewRawData(nodes, url) == [url |-> url] @@ PreviewExtraction(nodes)

\* the extract route cutting a content of ContentLimit characters as well
ExtractRouteDataCutsAtLimit(nodes, url) ==
    LET cleaned == RemoveNoise(nodes)
        mainContent == ExtractContent(BodyNodes(nodes)).content
    IN [title |-> TitleText(cleaned),
        h1 |-> FirstHeading(cleaned),
        h2Elements |-> Slice(SubHeadings(cleaned), SubHeadingCap),
        content |-> IF Len(mainContent) >= ContentLimit
                    THEN Substring(mainContent, ContentLimit) \o Ellipsis
                    ELSE mainContent,
        url |-> url]

\* lines 806-860: the extractedData the extract route answers with
ExtractRouteData(nodes, url) ==
    LET cleaned == RemoveNoise(nodes)
        mainContent == ExtractContent(BodyNodes(nodes)).content
    IN [title |-> TitleText(cleaned),
        h1 |-> FirstHeading(cleaned),
        h2Elements |-> Slice(SubHeadings(cleaned), SubHeadingCap),
        content |-> IF Len(mainContent) > ContentLimit
                    THEN Substring(mainContent, ContentLimit) \o Ellipsis
                    ELSE mainContent,
        url |-> url]

(* ---------------------------- report builder --------------------------- *)
Has(job, f) == f \in DOMAIN job

\* createExcelFile dereferences job.salary, job.benefits, job.requirements and
\* job.requirements.skills of every record (lines 204-206, 221-227): a record that
\* lacks one of them makes it throw a TypeError
ExcelThrows(jobs) ==
    \E k \in 1..Len(jobs) :
        \/ ~Has(jobs[k], "salary")
        \/ ~Has(jobs[k], "benefits")
        \/ ~Has(jobs[k], "requirements")
        \/ ~Has(jobs[k].requirements, "skills")

UndefinedPropertyMessage == <<"Cannot read properties of undefined">>

\* a member read: undefined when the object has no such member
Get(obj, f) == IF Has(obj, f) THEN obj[f] ELSE Absent

\* value || ''
OrEmpty(v) == IF Truthy(v) THEN v ELSE EmptyStr

\* Array.prototype.join: null and undefined elements are joined as empty strings
RECURSIVE Join(_, _)
Join(items, sep) ==
    IF Len(items) = 0 THEN EmptyStr
    ELSE IF Len(items) = 1 THEN OrEmpty(items[1])
    ELSE OrEmpty(items[1]) \o sep \o Join(Tail(items), sep)

ListSeparator == <<", ">>

\* new Date(iso).toLocaleString('ja-JP'): the timestamp rendered for the locale
DateString(t) == <<"ja-JP:", ToString(t)>>

\* lines 200-210: a row of the listing sheet
SummaryRow(job) ==
    [jobTitle |-> OrEmpty(Get(job, "jobTitle")),
     companyName |-> OrEmpty(Get(job, "companyName")),
     location |-> OrEmpty(Get(job, "location")),
     salaryMin |-> OrEmpty(Get(job.salary, "min")),
     salaryMax |-> OrEmpty(Get(job.salary, "max")),
     salaryType |-> OrEmpty(Get(job.salary, "type")),
     employmentType |-> OrEmpty(Get(job, "employmentType")),
     url |-> Get(job, "url"),
     extractedAt |-> DateString(job.extractedAt)]

\* the detail row numbered with the array index itself
DetailRowZeroBased(job, index) ==
    [no |-> index,
     jobTitle |-> OrEmpty(Get(job, "jobTitle")),
     companyName |-> OrEmpty(Get(job, "companyName")),
     location |-> OrEmpty(Get(job, "location")),
     salaryDetails |-> OrEmpty(Get(job.salary, "details")),
     workingHours |-> OrEmpty(Get(job, "workingHours")),
     holidays |-> OrEmpty(Get(job, "holidays")),
     benefits |-> Join(job.benefits, ListSeparator),
     experience |-> OrEmpty(Get(job.requirements, "experience")),
     skills |-> Join(job.requirements.skills, ListSeparator),
     education |-> OrEmpty(Get(job.requirements, "education")),
     jobDescription |-> OrEmpty(Get(job, "jobDescription")),
     applicationMethod |-> OrEmpty(Get(job, "applicationMethod")),
     url |-> Get(job, "url")]

\* lines 216-231: a row of the detail sheet; index is the 0-based array index
DetailRow(job, index) ==
    [no |-> index + 1,
     jobTitle |-> OrEmpty(Get(job, "jobTitle")),
     companyName |-> OrEmpty(Get(job, "companyName")),
     location |-> OrEmpty(Get(job, "location")),
     salaryDetails |-> OrEmpty(Get(job.salary, "details")),
     workingHours |-> OrEmpty(Get(job, "workingHours")),
     holidays |-> OrEmpty(Get(job, "holidays")),
     benefits |-> Join(job.benefits, ListSeparator),
     experience |-> OrEmpty(Get(job.requirements, "experience")),
     skills |-> Join(job.requirements.skills, ListSeparator),
     education |-> OrEmpty(Get(job.requirements, "education")),
     jobDescription |-> OrEmpty(Get(job, "jobDescription")),
     applicationMethod |-> OrEmpty(Get(job, "applicationMethod")),
     url |-> Get(job, "url")]

\* lines 239-241: each tally is a plain object literal, so a key that names a member
\* of Object.prototype reads as that member before the tally owns the key
InheritedKeys == {<<"constructor">>}

\* A tally is the sequence of its own entries in insertion order (Object.entries).
\* A value is the number n, or, when native is TRUE, the text of the inherited
\* function followed by n characters "1".
TallyIndex(tally, key) ==
    IF \E j \in 1..Len(tally) : tally[j].key = key
    THEN CHOOSE j \in 1..Len(tally) : tally[j].key = key
    ELSE 0

\* tally[key] || 0
TallyRead(tally, key) ==
    IF TallyIndex(tally, key) # 0 THEN tally[TallyIndex(tally, key)].value
    ELSE IF key \in InheritedKeys THEN [native |-> TRUE, n |-> 0]
    ELSE [native |-> FALSE, n |-> 0]

\* tally[key] = (tally[key] || 0) + 1
TallyIncrement(tally, key) ==
    LET cur == TallyRead(tally, key)
        new == [key |-> key, value |-> [native |-> cur.native, n |-> cur.n + 1]]
    IN IF TallyIndex(tally, key) # 0
       THEN [tally EXCEPT ![TallyIndex(tally, key)] = new]
       ELSE Append(tally, new)

\* lines 245-255 for one grouping field: the tally after the first n records
RECURSIVE CountBy(_, _, _)
CountBy(jobs, f, n) ==
    IF n = 0 THEN <<>>
    ELSE LET before == CountBy(jobs, f, n - 1)
         IN IF Truthy(Get(jobs[n], f))
            THEN TallyIncrement(before, jobs[n][f])
            ELSE before

NoReport == [ok |-> FALSE, built |-> FALSE, summary |-> <<>>, detail |-> <<>>,
             total |-> 0, jobTitles |-> <<>>, locations |-> <<>>,
             employmentTypes |-> <<>>]

\* lines 196-274: the three sheets, or the TypeError thrown while mapping the rows
CreateExcelFile(jobs) ==
    IF ExcelThrows(jobs)
    THEN [NoReport EXCEPT !.built = TRUE]
    ELSE [ok |-> TRUE,
          built |-> TRUE,
          summary |-> [k \in 1..Len(jobs) |-> SummaryRow(jobs[k])],
          detail |-> [k \in 1..Len(jobs) |-> DetailRow(jobs[k], k - 1)],
          total |-> Len(jobs),
          jobTitles |-> CountBy(jobs, "jobTitle", Len(jobs)),
          locations |-> CountBy(jobs, "location", Len(jobs)),
          employmentTypes |-> CountBy(jobs, "employmentType", Len(jobs))]

(* ------------------------------ responses ------------------------------ *)
NoResponse == [status |-> 0, error |-> Absent]
JsonError(status, msg) == [status |-> status, error |-> msg]
ExcelResponse == [status |-> 200, error |-> Absent]

\* lines 366-399: the batch route's outer catch
BatchErrorResponse(err) ==
    IF err.axios
    THEN IF err.status = 402
         THEN JsonError(402, <<"OpenRouter API: Payment required. Please check your account balance and try again.">>)
         ELSE IF err.status = 401
         THEN JsonError(401, <<"OpenRouter API: Invalid API key. Please check your API key.">>)
         ELSE IF err.status = 429
         THEN JsonError(429, <<"OpenRouter API: Rate limit exceeded. Please try again later.">>)
         ELSE IF err.status # 0
         THEN JsonError(err.status,
                        <<"OpenRouter API Error (", ToString(err.status), "): ">>
                        \o ApiErrorMessage(err))
         ELSE JsonError(500, <<"Network error: ">> \o err.message)
    ELSE JsonError(500, <<"Processing error: ">> \o err.message)

(* -------------------------------- state -------------------------------- *)
VARIABLES
    req,         \* the request body: route, urls, url, apiKey
    pc,          \* where the handler is: the await it is suspended at
    i,           \* 1-based index of the URL the batch loop is at
    content,     \* the text extractContentFromUrl returned for the current URL
    jobsData,    \* the batch route's result sequence
    origin,      \* per record of jobsData: how it was produced
    response,    \* the HTTP response, status 0 while none is sent
    preview,     \* the preview route's PreviewResponse object
    fetchCalls,  \* per URL: axios.get calls issued
    structCalls, \* per URL: structuring axios.post calls issued
    lastPost,    \* what the latest structuring axios.post returned or threw
    probeCalls,  \* validateApiKey calls issued
    lastProbe,   \* what the latest probe call of validateApiKey returned or threw
    delays,      \* inter-item delays that have elapsed
    clock,       \* the wall clock new Date() reads
    fnIn,        \* input of the structuring client taken alone
    fnOut,       \* its results
    report,      \* what createExcelFile returned or that it threw
    doc,         \* the body of a fetched page, for the content extractor taken alone
    extracted    \* what the content extractor made of it

vars == <<req, pc, i, content, jobsData, origin, response, preview, fetchCalls,
          structCalls, lastPost, probeCalls, lastProbe, delays, clock, fnIn, fnOut,
          report,
          doc, extracted>>

fnVars == <<fnIn, fnOut>>
previewVars == <<preview, probeCalls, lastProbe>>

BatchRequests ==
    {[route |-> "batch", urls |-> u, url |-> Absent, apiKey |-> k] :
        u \in UrlsInputs, k \in ApiKeys}

PreviewUrls == {Absent, EmptyStr, <<"a">>}

PreviewRequests ==
    {[route |-> "preview", urls |-> [tag |-> "absent", items |-> <<>>], url |-> u,
      apiKey |-> k] : u \in PreviewUrls, k \in ApiKeys}

NoPreview ==
    [rawData |-> <<>>, structuredData |-> <<>>, error |-> Absent, apiKeyValid |-> "unset"]

\* no probe call has returned yet
NoProbe == [ok |-> FALSE, status |-> 0, err |-> PlainError(EmptyStr)]

NoFn == [content |-> EmptyStr, url |-> EmptyStr, post |-> PostOk(EmptyStr)]

\* what the pages of the model extract to, and what the structuring service answers
Contents == {Str(0), Str(2)}

Replies ==
    {<<"{", "F", "}">>, <<"p", "{", "F", "}", "p">>, <<"{", "}">>,
     <<"p", "p">>, <<"{", "p", "}">>, <<"{", "F", "}", "p", "}">>}

Posts == {PostOk(r) : r \in Replies} \cup {PostFailed(e) : e \in PostErrors}

Init ==
    /\ req \in BatchRequests \cup PreviewRequests
    /\ pc = "start"
    /\ i = 0
    /\ content = EmptyStr
    /\ jobsData = <<>>
    /\ origin = <<>>
    /\ response = NoResponse
    /\ preview = NoPreview
    /\ fetchCalls = <<>>
    /\ structCalls = <<>>
    /\ lastPost = PostOk(EmptyStr)
    /\ probeCalls = 0
    /\ lastProbe = NoProbe
    /\ delays = 0
    /\ clock = 0
    /\ fnIn = NoFn
    /\ fnOut = <<>>
    /\ report = NoReport
    /\ doc = <<>>
    /\ extracted = NoExtraction

(* ------------------------- extract-to-excel route ---------------------- *)
\* the check reduced to !urls
UrlsRejectedOnlyAbsent(r) == r.urls.tag = "absent"

\* !urls || !Array.isArray(urls) || urls.length === 0
UrlsRejected(r) == r.urls.tag # "list" \/ Len(r.urls.items) = 0

\* lines 276-294
BatchValidate ==
    /\ pc = "start"
    /\ req.route = "batch"
    /\ IF UrlsRejected(req)
       THEN /\ response' = JsonError(400, <<"URLs array is required">>)
            /\ pc' = "done"
            /\ UNCHANGED <<i, fetchCalls, structCalls>>
       ELSE IF ~Truthy(req.apiKey)
       THEN /\ response' = JsonError(400, <<"OpenRouter API key is required">>)
            /\ pc' = "done"
            /\ UNCHANGED <<i, fetchCalls, structCalls>>
       ELSE /\ pc' = "loop"
            /\ i' = 1
            /\ fetchCalls' = [k \in 1..Len(req.urls.items) |-> 0]
            /\ structCalls' = [k \in 1..Len(req.urls.items) |-> 0]
            /\ UNCHANGED response
    /\ UNCHANGED <<req, lastPost, content, jobsData, origin, delays, clock>>
    /\ UNCHANGED previewVars
    /\ UNCHANGED fnVars
    /\ UNCHANGED <<report, doc, extracted>>

\* the loop issuing the fetch of every remaining URL at once
FetchStartAll ==
    /\ pc = "loop"
    /\ i <= Len(req.urls.items)
    /\ fetchCalls' = [k \in 1..Len(req.urls.items) |->
                         IF k >= i THEN fetchCalls[k] + 1 ELSE fetchCalls[k]]
    /\ pc' = "fetching"
    /\ UNCHANGED <<req, lastPost, i, content, jobsData, origin, response, structCalls, delays,
                   clock>>
    /\ UNCHANGED previewVars
    /\ UNCHANGED fnVars
    /\ UNCHANGED <<report, doc, extracted>>

\* lines 297-302: the loop takes the next URL and awaits axios.get
FetchStart ==
    /\ pc = "loop"
    /\ i <= Len(req.urls.items)
    /\ fetchCalls' = [fetchCalls EXCEPT ![i] = @ + 1]
    /\ pc' = "fetching"
    /\ UNCHANGED <<req, lastPost, i, content, jobsData, origin, response, structCalls, delays,
                   clock>>
    /\ UNCHANGED previewVars
    /\ UNCHANGED fnVars
    /\ UNCHANGED <<report, doc, extracted>>

\* FetchFail with a catch that appends nothing
FetchFailSkips(err) ==
    /\ pc = "fetching"
    /\ clock' = clock + 1
    /\ i' = i + 1
    /\ pc' = "loop"
    /\ UNCHANGED <<req, lastPost, content, jobsData, origin, response, fetchCalls,
                   structCalls, delays>>
    /\ UNCHANGED previewVars
    /\ UNCHANGED fnVars
    /\ UNCHANGED <<report, doc, extracted>>

\* FetchFail without the loop's try/catch: the error reaches the outer catch
FetchFailAborts(err) ==
    /\ pc = "fetching"
    /\ clock' = clock + 1
    /\ response' = BatchErrorResponse(err)
    /\ pc' = "done"
    /\ UNCHANGED <<req, lastPost, i, content, jobsData, origin, fetchCalls, structCalls,
                   delays>>
    /\ UNCHANGED previewVars
    /\ UNCHANGED fnVars
    /\ UNCHANGED <<report, doc, extracted>>

\* lines 302, 312-351: extractContentFromUrl throws, the loop's catch appends
FetchFail(err) ==
    /\ pc = "fetching"
    /\ clock' = clock + 1
    /\ jobsData' = Append(jobsData, LoopDegraded(err, req.urls.items[i], clock'))
    /\ origin' = Append(origin, "fetchFailed")
    /\ i' = i + 1
    /\ pc' = "loop"
    /\ UNCHANGED <<req, lastPost, content, response, fetchCalls, structCalls, delays>>
    /\ UNCHANGED previewVars
    /\ UNCHANGED fnVars
    /\ UNCHANGED <<report, doc, extracted>>

\* lines 302-305, 71-127: the content is extracted and the structuring call issued
FetchOk(c) ==
    /\ pc = "fetching"
    /\ clock' = clock + 1
    /\ content' = c
    /\ structCalls' = [structCalls EXCEPT ![i] = @ + 1]
    /\ pc' = "structuring"
    /\ UNCHANGED <<req, lastPost, i, jobsData, origin, response, fetchCalls, delays>>
    /\ UNCHANGED previewVars
    /\ UNCHANGED fnVars
    /\ UNCHANGED <<report, doc, extracted>>

\* a structuring call that failed is issued a second time before a record is made
StructReturnRetries(post) ==
    /\ pc = "structuring"
    /\ clock' = clock + 1
    /\ lastPost' = post
    /\ IF ~ParseReply(post).ok /\ structCalls[i] < 2
       THEN /\ structCalls' = [structCalls EXCEPT ![i] = @ + 1]
            /\ UNCHANGED <<jobsData, origin, pc>>
       ELSE /\ jobsData' = Append(jobsData,
                                  StructureJobData(content, req.urls.items[i], post, clock'))
            /\ origin' = Append(origin,
                                IF ParseReply(post).ok THEN "structured"
                                ELSE "structureFailed")
            /\ pc' = "delay"
            /\ UNCHANGED structCalls
    /\ UNCHANGED <<req, i, content, response, fetchCalls, delays>>
    /\ UNCHANGED previewVars
    /\ UNCHANGED fnVars
    /\ UNCHANGED <<report, doc, extracted>>

\* lines 305-310, 129-193: the structuring call returns, its record is appended and
\* the delay timer started
StructReturn(post) ==
    /\ pc = "structuring"
    /\ clock' = clock + 1
    /\ lastPost' = post
    /\ jobsData' = Append(jobsData,
                          StructureJobData(content, req.urls.items[i], post, clock'))
    /\ origin' = Append(origin,
                        IF ParseReply(post).ok THEN "structured" ELSE "structureFailed")
    /\ pc' = "delay"
    /\ UNCHANGED <<req, i, content, response, fetchCalls, structCalls, delays>>
    /\ UNCHANGED previewVars
    /\ UNCHANGED fnVars
    /\ UNCHANGED <<report, doc, extracted>>

\* line 310: the timer fires and the loop goes on
DelayElapse ==
    /\ pc = "delay"
    /\ clock' = clock + DelayMs
    /\ delays' = delays + 1
    /\ i' = i + 1
    /\ pc' = "loop"
    /\ UNCHANGED <<req, lastPost, content, jobsData, origin, response, fetchCalls, structCalls>>
    /\ UNCHANGED previewVars
    /\ UNCHANGED fnVars
    /\ UNCHANGED <<report, doc, extracted>>

\* lines 354-399: the loop is over, the report is built and the response sent
BuildReport ==
    /\ pc = "loop"
    /\ i > Len(req.urls.items)
    /\ response' = IF ExcelThrows(jobsData)
                   THEN BatchErrorResponse(PlainError(UndefinedPropertyMessage))
                   ELSE ExcelResponse
    /\ report' = CreateExcelFile(jobsData)
    /\ pc' = "done"
    /\ UNCHANGED <<req, lastPost, i, content, jobsData, origin, fetchCalls, structCalls, delays,
                   clock>>
    /\ UNCHANGED previewVars
    /\ UNCHANGED fnVars
    /\ UNCHANGED <<doc, extracted>>

BatchNext ==
    \/ BatchValidate
    \/ FetchStart
    \/ \E err \in FetchErrors : FetchFail(err)
    \/ \E c \in Contents : FetchOk(c)
    \/ \E post \in Posts : StructReturn(post)
    \/ DelayElapse
    \/ BuildReport

(* ------------------------ preview-extraction route --------------------- *)
StatusText(status) == IF status = 0 THEN "undefined" ELSE ToString(status)

\* validateApiKey (lines 587-631): the probe's outcome as a classification
ProbeOk(status) == [ok |-> TRUE, status |-> status, err |-> PlainError(EmptyStr)]
ProbeFailed(err) == [ok |-> FALSE, status |-> 0, err |-> err]

\* validateApiKey without its 402 branch
ValidateApiKeyNoPaymentBranch(probe) ==
    IF probe.ok THEN [valid |-> probe.status = 200, error |-> Absent]
    ELSE IF probe.err.axios
    THEN IF probe.err.status = 401
         THEN [valid |-> FALSE, error |-> <<"OpenRouter API: [ja] API key invalid">>]
         ELSE IF probe.err.status = 429
         THEN [valid |-> FALSE, error |-> <<"OpenRouter API: [ja] rate limit reached">>]
         ELSE [valid |-> FALSE,
               error |-> <<"OpenRouter API [ja] error (", StatusText(probe.err.status),
                           "): ">> \o ApiErrorMessage(probe.err)]
    ELSE [valid |-> FALSE, error |-> <<"[ja] API key validation failed">>]

ValidateApiKey(probe) ==
    IF probe.ok THEN [valid |-> probe.status = 200, error |-> Absent]
    ELSE IF probe.err.axios
    THEN IF probe.err.status = 402
         THEN [valid |-> FALSE, error |-> <<"OpenRouter API: [ja] insufficient balance">>]
         ELSE IF probe.err.status = 401
         THEN [valid |-> FALSE, error |-> <<"OpenRouter API: [ja] API key invalid">>]
         ELSE IF probe.err.status = 429
         THEN [valid |-> FALSE, error |-> <<"OpenRouter API: [ja] rate limit reached">>]
         ELSE [valid |-> FALSE,
               error |-> <<"OpenRouter API [ja] error (", StatusText(probe.err.status),
                           "): ">> \o ApiErrorMessage(probe.err)]
    ELSE [valid |-> FALSE, error |-> <<"[ja] API key validation failed">>]

Probes ==
    {ProbeOk(200), ProbeOk(201)}
    \cup {ProbeFailed(e) : e \in PostErrors \cup {PlainError(<<"socket closed">>)}}

\* lines 742-759: the message the preview route's inner catch derives
PreviewErrorMessage(err) ==
    IF err.axios
    THEN IF err.status = 402
         THEN <<"OpenRouter API: Payment required. Please check your account balance.">>
         ELSE IF err.status = 401 THEN <<"OpenRouter API: Invalid API key.">>
         ELSE IF err.status = 429
         THEN <<"OpenRouter API: Rate limit exceeded. Please try again later.">>
         ELSE <<"OpenRouter API Error (", StatusText(err.status), "): ">>
              \o ApiErrorMessage(err)
    ELSE <<"Structuring error: ">> \o err.message

\* lines 765-779: the preview route's outer catch
PreviewErrorResponse(err) ==
    IF err.axios THEN JsonError(500, <<"Failed to fetch URL: ">> \o err.message)
    ELSE JsonError(500, <<"Failed to process URL">>)

RawData(c, url) == [content |-> c, contentLength |-> Len(c), url |-> url]

\* lines 707-719
PreviewValidate ==
    /\ pc = "start"
    /\ req.route = "preview"
    /\ IF ~Truthy(req.url)
       THEN /\ response' = JsonError(400, <<"URL is required">>)
            /\ pc' = "done"
            /\ UNCHANGED <<fetchCalls, structCalls>>
       ELSE /\ fetchCalls' = <<1>>
            /\ structCalls' = <<0>>
            /\ pc' = "previewFetching"
            /\ UNCHANGED response
    /\ UNCHANGED <<req, lastPost, i, content, jobsData, origin, preview, probeCalls, lastProbe, delays, clock>>
    /\ UNCHANGED fnVars
    /\ UNCHANGED <<report, doc, extracted>>

\* lines 719, 765-779: the fetch fails and the outer catch answers
PreviewFetchFail(err) ==
    /\ pc = "previewFetching"
    /\ clock' = clock + 1
    /\ response' = PreviewErrorResponse(err)
    /\ pc' = "done"
    /\ UNCHANGED <<req, lastPost, i, content, jobsData, origin, preview, fetchCalls, structCalls,
                   probeCalls, lastProbe, delays>>
    /\ UNCHANGED fnVars
    /\ UNCHANGED <<report, doc, extracted>>

\* lines 719-732, 763: the raw data is in; with a credential the probe is issued,
\* without one the response is sent
PreviewFetchOk(c) ==
    /\ pc = "previewFetching"
    /\ clock' = clock + 1
    /\ content' = c
    /\ preview' = [NoPreview EXCEPT !.rawData = <<RawData(c, req.url)>>]
    /\ IF Truthy(req.apiKey)
       THEN /\ probeCalls' = probeCalls + 1
            /\ pc' = "probing"
            /\ UNCHANGED response
       ELSE /\ response' = [status |-> 200, error |-> Absent]
            /\ pc' = "done"
            /\ UNCHANGED probeCalls
    /\ UNCHANGED <<req, lastPost, lastProbe, i, jobsData, origin, fetchCalls, structCalls,
                   delays>>
    /\ UNCHANGED fnVars
    /\ UNCHANGED <<report, doc, extracted>>

\* the probe returns and the structuring call is issued whatever it says
ProbeReturnAlwaysStructures(probe) ==
    /\ pc = "probing"
    /\ clock' = clock + 1
    /\ lastProbe' = probe
    /\ preview' = [preview EXCEPT
                      !.apiKeyValid = IF ValidateApiKey(probe).valid THEN "true" ELSE "false"]
    /\ structCalls' = [structCalls EXCEPT ![1] = @ + 1]
    /\ pc' = "previewStructuring"
    /\ UNCHANGED response
    /\ UNCHANGED <<req, lastPost, i, content, jobsData, origin, fetchCalls, probeCalls, delays>>
    /\ UNCHANGED fnVars
    /\ UNCHANGED <<report, doc, extracted>>

\* lines 732-741, 763: the probe returns; a valid credential starts the structuring
\* call, an invalid one ends the request with the probe's reason
ProbeReturn(probe) ==
    /\ pc = "probing"
    /\ clock' = clock + 1
    /\ lastProbe' = probe
    /\ LET v == ValidateApiKey(probe)
       IN IF v.valid
          THEN /\ preview' = [preview EXCEPT !.apiKeyValid = "true"]
               /\ structCalls' = [structCalls EXCEPT ![1] = @ + 1]
               /\ pc' = "previewStructuring"
               /\ UNCHANGED response
          ELSE /\ preview' = [preview EXCEPT
                                 !.apiKeyValid = "false",
                                 !.error = IF Truthy(v.error) THEN v.error
                                           ELSE <<"Invalid API key or insufficient credits">>]
               /\ response' = [status |-> 200, error |-> Absent]
               /\ pc' = "done"
               /\ UNCHANGED structCalls
    /\ UNCHANGED <<req, lastPost, i, content, jobsData, origin, fetchCalls, probeCalls, delays>>
    /\ UNCHANGED fnVars
    /\ UNCHANGED <<report, doc, extracted>>

\* the structuring call made outside the inner try: its failure reaches the outer catch
PreviewStructReturnUncaught(post) ==
    /\ pc = "previewStructuring"
    /\ clock' = clock + 1
    /\ lastPost' = post
    /\ LET r == ParseReply(post)
       IN IF r.ok
          THEN /\ preview' = [preview EXCEPT
                                 !.structuredData = <<Merge(r.obj, req.url, clock')>>]
               /\ response' = [status |-> 200, error |-> Absent]
          ELSE /\ preview' = NoPreview
               /\ response' = PreviewErrorResponse(r.err)
    /\ pc' = "done"
    /\ UNCHANGED <<req, i, content, jobsData, origin, fetchCalls, structCalls, probeCalls,
                   lastProbe, delays>>
    /\ UNCHANGED fnVars
    /\ UNCHANGED <<report, doc, extracted>>

\* lines 737-763, 690-704: structureJobData of the preview route returns or throws
PreviewStructReturn(post) ==
    /\ pc = "previewStructuring"
    /\ clock' = clock + 1
    /\ lastPost' = post
    /\ LET r == ParseReply(post)
       IN preview' = IF r.ok
                     THEN [preview EXCEPT
                              !.structuredData = <<Merge(r.obj, req.url, clock')>>]
                     ELSE [preview EXCEPT !.error = PreviewErrorMessage(r.err)]
    /\ response' = [status |-> 200, error |-> Absent]
    /\ pc' = "done"
    /\ UNCHANGED <<req, i, content, jobsData, origin, fetchCalls, structCalls, probeCalls, lastProbe,
                   delays>>
    /\ UNCHANGED fnVars
    /\ UNCHANGED <<report, doc, extracted>>

PreviewNext ==
    \/ PreviewValidate
    \/ \E err \in FetchErrors : PreviewFetchFail(err)
    \/ \E c \in Contents : PreviewFetchOk(c)
    \/ \E probe \in Probes : ProbeReturn(probe)
    \/ \E post \in Posts : PreviewStructReturn(post)

Next == BatchNext \/ PreviewNext

Spec == Init /\ [][Next]_vars

(* ------------------------------ scheduling ----------------------------- *)
\* axios.get is called with timeout: 10000 (lines 36, 540): the await of a fetch
\* settles, with the page or with an error, the timeout error included
FetchSettles ==
    \/ \E err \in FetchErrors : FetchFail(err)
    \/ \E c \in Contents : FetchOk(c)

PreviewFetchSettles ==
    \/ \E err \in FetchErrors : PreviewFetchFail(err)
    \/ \E c \in Contents : PreviewFetchOk(c)

\* The handlers run when they can and the timer of line 310 fires. The axios.post
\* calls of structureJobData (lines 106-127, 667-688) and of validateApiKey (lines
\* 589-609) are made without a timeout option: they settle only if the service
\* answers or the connection ends, so nothing is assumed of them.
Fairness ==
    /\ WF_vars(BatchValidate)
    /\ WF_vars(FetchStart)
    /\ WF_vars(FetchSettles)
    /\ WF_vars(DelayElapse)
    /\ WF_vars(BuildReport)
    /\ WF_vars(PreviewValidate)
    /\ WF_vars(PreviewFetchSettles)

SpecFair == Init /\ [][Next]_vars /\ Fairness

(* ------------------ the structuring client taken alone ----------------- *)
\* every reply of at most MaxReplyLen characters, a null message body, every failure
FnReplies == SeqsUpTo(ReplyChars, MaxReplyLen) \cup {Null}
FnPosts == {PostOk(r) : r \in FnReplies} \cup {PostFailed(e) : e \in PostErrors}
FnContents ==
    {Str(0), Str(1), Str(ExcerptLen - 1), Str(ExcerptLen), Str(ExcerptLen + 1),
     Str(ExcerptLen + 2)}
FnUrls == {<<"a">>}

FnInit ==
    /\ fnIn \in [content : {EmptyStr}, url : FnUrls, post : FnPosts]
    /\ fnOut = <<>>
    /\ req = [route |-> "none", urls |-> [tag |-> "absent", items |-> <<>>],
              url |-> Absent, apiKey |-> Absent]
    /\ pc = "fn"
    /\ i = 0
    /\ content = EmptyStr
    /\ jobsData = <<>>
    /\ origin = <<>>
    /\ response = NoResponse
    /\ preview = NoPreview
    /\ fetchCalls = <<>>
    /\ structCalls = <<>>
    /\ lastPost = PostOk(EmptyStr)
    /\ probeCalls = 0
    /\ lastProbe = NoProbe
    /\ delays = 0
    /\ clock = 0
    /\ report = NoReport
    /\ doc = <<>>
    /\ extracted = NoExtraction

\* the batch route's structureJobData and the preview route's applied to one input
FnStructure(c) ==
    /\ pc = "fn"
    /\ fnOut = <<>>
    /\ clock' = clock + 1
    /\ fnIn' = [fnIn EXCEPT !.content = c]
    /\ fnOut' = <<[batch |-> StructureJobData(c, fnIn.url, fnIn.post, clock'),
                   parsed |-> ParseReply(fnIn.post)]>>
    /\ pc' = "fnDone"
    /\ UNCHANGED <<req, lastPost, i, content, jobsData, origin, response, preview, fetchCalls,
                   structCalls, probeCalls, lastProbe, delays, report, doc, extracted>>

FnNext == \E c \in FnContents : FnStructure(c)

SpecStructure == FnInit /\ [][FnNext]_vars

(* --------------------- the report builder taken alone ------------------ *)
MaxJobs == 2

\* an object literal of the reply that leaves members out
Omit(obj, fields) == [f \in DOMAIN obj \ fields |-> obj[f]]

GroupingTitles == {Null, EmptyStr, <<"Engineer">>, <<"engineer">>, <<"constructor">>}
GroupingLocations == {Null, <<"Tokyo">>}
GroupingTypes == {Null, <<"full-time">>}

\* complete answers that differ in the three grouping fields
GroupedObjects ==
    {[FullObject EXCEPT !.jobTitle = t, !.location = l, !.employmentType = e] :
        t \in GroupingTitles, l \in GroupingLocations, e \in GroupingTypes}

\* answers that leave out top-level members, members of salary and of requirements
OmittedMembers ==
    {{"jobTitle"}, {"location", "employmentType"}, {"salary"}, {"benefits"},
     {"requirements"}, DOMAIN FullObject}

PartialObjects ==
    {Omit(FullObject, S) : S \in OmittedMembers}
    \cup {[FullObject EXCEPT !.salary = Omit(@, {"min", "details"})],
          [FullObject EXCEPT !.requirements = Omit(@, {"experience"})],
          [FullObject EXCEPT !.requirements = Omit(@, {"skills"})],
          [FullObject EXCEPT !.benefits = <<>>],
          [FullObject EXCEPT !.benefits = << <<"insurance">>, <<"meals">> >>,
                             !.requirements.skills = << <<"ts">>, Null, <<"go">> >>]}

ReportUrl == <<"a">>

\* the records the loop can push: merged answers (lines 139-143) and degraded
\* records (lines 169-192, 336-350)
ReportJobs ==
    {Merge(o, ReportUrl, 1) : o \in GroupedObjects \cup PartialObjects}
    \cup {LoopDegraded(TimeoutError, ReportUrl, 1),
          StructureJobData(Str(2), ReportUrl, PostFailed(TimeoutError), 1)}

ReportInit ==
    /\ jobsData \in SeqsUpTo(ReportJobs, MaxJobs)
    /\ report = NoReport
    /\ doc = <<>>
    /\ extracted = NoExtraction
    /\ req = [route |-> "none", urls |-> [tag |-> "absent", items |-> <<>>],
              url |-> Absent, apiKey |-> Absent]
    /\ pc = "report"
    /\ i = 0
    /\ content = EmptyStr
    /\ origin = <<>>
    /\ response = NoResponse
    /\ preview = NoPreview
    /\ fetchCalls = <<>>
    /\ structCalls = <<>>
    /\ lastPost = PostOk(EmptyStr)
    /\ probeCalls = 0
    /\ lastProbe = NoProbe
    /\ delays = 0
    /\ clock = 0
    /\ fnIn = NoFn
    /\ fnOut = <<>>

\* createExcelFile applied to one result sequence
FnReport ==
    /\ pc = "report"
    /\ report' = CreateExcelFile(jobsData)
    /\ pc' = "reportDone"
    /\ UNCHANGED <<req, lastPost, i, content, jobsData, origin, response, preview, fetchCalls,
                   structCalls, probeCalls, lastProbe, delays, clock>>
    /\ UNCHANGED fnVars
    /\ UNCHANGED <<doc, extracted>>

ReportNext == FnReport

SpecReport == ReportInit /\ [][ReportNext]_vars

(* -------------------- the content extractor taken alone ---------------- *)
MaxBodyNodes == 2

Texts == {<<"a">>, <<" ", "b", "<LF>", "<LF>", "c", " ">>, <<" ", "<LF>">>}
Tags == {"main", "article", "nav"}

\* text nodes, elements around at most one text node, elements around one of these
TextNodes == {TextNode(t) : t \in Texts}
InnerNodes ==
    TextNodes \cup {Element(tag, <<>>) : tag \in Tags}
    \cup {Element(tag, <<n>>) : tag \in Tags, n \in TextNodes}
Nodes ==
    InnerNodes \cup {Element(tag, <<n>>) : tag \in Tags, n \in InnerNodes}

ExtractInit ==
    /\ doc \in SeqsUpTo(Nodes, MaxBodyNodes)
    /\ extracted = NoExtraction
    /\ req = [route |-> "none", urls |-> [tag |-> "absent", items |-> <<>>],
              url |-> Absent, apiKey |-> Absent]
    /\ pc = "extract"
    /\ i = 0
    /\ content = EmptyStr
    /\ jobsData = <<>>
    /\ origin = <<>>
    /\ response = NoResponse
    /\ preview = NoPreview
    /\ fetchCalls = <<>>
    /\ structCalls = <<>>
    /\ lastPost = PostOk(EmptyStr)
    /\ probeCalls = 0
    /\ lastProbe = NoProbe
    /\ delays = 0
    /\ clock = 0
    /\ fnIn = NoFn
    /\ fnOut = <<>>
    /\ report = NoReport

\* the extraction of extractContentFromUrl applied to one page body
FnExtract ==
    /\ pc = "extract"
    /\ extracted' = ExtractContent(doc)
    /\ pc' = "extractDone"
    /\ UNCHANGED <<req, lastPost, i, content, jobsData, origin, response, preview, fetchCalls,
                   structCalls, probeCalls, lastProbe, delays, clock, report, doc>>
    /\ UNCHANGED fnVars

ExtractNext == FnExtract

SpecExtract == ExtractInit /\ [][ExtractNext]_vars

(* ------------- the raw extraction of the two routes taken alone -------- *)
MaxHeadings == 6

\* a text of n characters with a run of white space inside
SpacedStr(n) ==
    IF n < 4 THEN Str(n)
    ELSE <<"a", " ", "<LF>">> \o Str(n - 3)

HeadingNodes(n) == [k \in 1..n |-> Element("h2", <<TextNode(<<" ", "h", ToString(k)>>)>>)]

\* contents whose cleaned text is 0, 2, ContentLimit - 1, ContentLimit and
\* ContentLimit + 1 characters long
RawContentLengths == {0, 2, ContentLimit, ContentLimit + 1, ContentLimit + 2}

\* pages with a title, up to two h1, up to MaxHeadings h2, a nav and a main region
RawPages ==
    {<<Element("title", <<TextNode(<<"t", " ">>)>>)>>
     \o [k \in 1..h |-> Element("h1", <<TextNode(<<"H", ToString(k)>>)>>)]
     \o HeadingNodes(n)
     \o <<Element("nav", <<Element("h2", <<TextNode(<<"menu">>)>>)>>),
          Element(region, <<TextNode(SpacedStr(len))>>)>> :
        h \in 0..2, n \in 0..MaxHeadings, len \in RawContentLengths,
        region \in {"main", "article"}}

RawInit ==
    /\ doc \in RawPages
    /\ extracted = NoExtraction
    /\ req \in [route : {"none"}, urls : {[tag |-> "absent", items |-> <<>>]},
                url : {<<"a">>, <<"b">>}, apiKey : {Absent}]
    /\ pc = "raw"
    /\ i = 0
    /\ content = EmptyStr
    /\ jobsData = <<>>
    /\ origin = <<>>
    /\ response = NoResponse
    /\ preview = NoPreview
    /\ fetchCalls = <<>>
    /\ structCalls = <<>>
    /\ lastPost = PostOk(EmptyStr)
    /\ probeCalls = 0
    /\ lastProbe = NoProbe
    /\ delays = 0
    /\ clock = 0
    /\ fnIn = NoFn
    /\ fnOut = <<>>
    /\ report = NoReport

\* the two routes' extractions applied to the same page
FnRaw ==
    /\ pc = "raw"
    /\ extracted' = [preview |-> PreviewRawData(doc, req.url),
                     extract |-> ExtractRouteData(doc, req.url)]
    /\ pc' = "rawDone"
    /\ UNCHANGED <<req, lastPost, i, content, jobsData, origin, response, preview, fetchCalls,
                   structCalls, probeCalls, lastProbe, delays, clock, report, doc>>
    /\ UNCHANGED fnVars

RawNext == FnRaw

SpecRaw == RawInit /\ [][RawNext]_vars

(* ------------------ the content normalization taken alone -------------- *)
MaxTextLen == 4

TextChars == {"a", " ", "<LF>"}

NormalizeInit ==
    /\ doc \in {<<TextNode(t)>> : t \in SeqsUpTo(TextChars, MaxTextLen)}
    /\ extracted = NoExtraction
    /\ req = [route |-> "none", urls |-> [tag |-> "absent", items |-> <<>>],
              url |-> Absent, apiKey |-> Absent]
    /\ pc = "normalize"
    /\ i = 0
    /\ content = EmptyStr
    /\ jobsData = <<>>
    /\ origin = <<>>
    /\ response = NoResponse
    /\ preview = NoPreview
    /\ fetchCalls = <<>>
    /\ structCalls = <<>>
    /\ lastPost = PostOk(EmptyStr)
    /\ probeCalls = 0
    /\ lastProbe = NoProbe
    /\ delays = 0
    /\ clock = 0
    /\ fnIn = NoFn
    /\ fnOut = <<>>
    /\ report = NoReport

\* lines 65-68 applied to one text
FnNormalize ==
    /\ pc = "normalize"
    /\ extracted' = [content |-> CleanContent(TextOf(doc)), selector |-> "none"]
    /\ pc' = "normalizeDone"
    /\ UNCHANGED <<req, lastPost, i, content, jobsData, origin, response, preview, fetchCalls,
                   structCalls, probeCalls, lastProbe, delays, clock, report, doc>>
    /\ UNCHANGED fnVars

NormalizeNext == FnNormalize

SpecNormalize == NormalizeInit /\ [][NormalizeNext]_vars

(* ============================== properties ============================== *)
N == Len(req.urls.items)
Validated == req.route = "batch" /\ ~UrlsRejected(req) /\ Truthy(req.apiKey)
BatchDone == Validated /\ pc = "done"
Degraded(k) == origin[k] \in {"fetchFailed", "structureFailed"}

\* C1: when the loop of a validated batch is over, the result sequence given to the
\* report builder has one record per input URL, the k-th record carrying the k-th
\* input URL, whatever the fetch and structuring outcomes were.
C1_OneRecordPerUrlInOrder ==
    BatchDone =>
        /\ Len(jobsData) = N
        /\ \A k \in 1..N : jobsData[k].url = req.urls.items[k]

C1_Witness ==
    /\ BatchDone
    /\ N = 2
    /\ req.urls.items[1] # req.urls.items[2]
    /\ origin = <<"fetchFailed", "structureFailed">>

\* C2 as stated: every record of the result, structured or degraded, has a non-empty
\* url and a populated extractedAt.
C2_NonEmptyUrlAndTimestamp ==
    Validated =>
        \A k \in 1..Len(jobsData) :
            /\ Has(jobsData[k], "url") /\ jobsData[k].url # EmptyStr
            /\ Has(jobsData[k], "extractedAt") /\ jobsData[k].extractedAt > 0

\* C2 amended: every record has a populated extractedAt, and a url that is non-empty
\* unless the input entry it was made for is itself the empty string (the request
\* validation looks at the list, not at its entries).
C2_UrlOfInputAndTimestamp ==
    Validated =>
        \A k \in 1..Len(jobsData) :
            /\ Has(jobsData[k], "url")
            /\ jobsData[k].url # EmptyStr \/ req.urls.items[k] = EmptyStr
            /\ Has(jobsData[k], "extractedAt") /\ jobsData[k].extractedAt > 0

C2_Witness ==
    /\ BatchDone
    /\ N = 2
    /\ origin = <<"structured", "structureFailed">>
    /\ jobsData[1].url # EmptyStr
    /\ jobsData[2].url # EmptyStr

\* C3: a fetch failure of URL k gives a record for URL k whose jobDescription carries
\* the fetch error and whose other fields are null or empty; no structuring call is
\* made for URL k; every later URL is still fetched, and the records of the URLs that
\* were structured are the merge of the answer with their own URL.
C3_FetchFailureIsolated ==
    Validated =>
        /\ \A k \in 1..Len(jobsData) :
            /\ origin[k] = "fetchFailed" =>
                /\ structCalls[k] = 0
                /\ \E err \in FetchErrors :
                      jobsData[k] = EmptyJob(LoopMarker \o LoopErrorMessage(err),
                                             req.urls.items[k], jobsData[k].extractedAt)
            /\ origin[k] = "structured" =>
                \E obj \in {FullObject, <<>>} :
                    jobsData[k] = Merge(obj, req.urls.items[k], jobsData[k].extractedAt)
        /\ pc = "done" => \A k \in 1..N : fetchCalls[k] = 1

C3_Witness ==
    /\ BatchDone
    /\ N = 2
    /\ origin = <<"fetchFailed", "structured">>
    /\ Has(jobsData[2], "jobTitle")

FnDone == pc = "fnDone" /\ Len(fnOut) = 1
Drop(s, n) == SubSeq(s, n + 1, Len(s))

\* C4: when the structuring call fails for any reason, the record is a degraded
\* record: its jobDescription is the marker, the classified error message, the
\* raw-data heading and then exactly the first ExcerptLen characters of the content,
\* followed by the truncation marker if and only if the content is longer than
\* ExcerptLen; every other structured field is null or empty.
C4_StructuringFailureExcerpt ==
    (FnDone /\ ~fnOut[1].parsed.ok) =>
        LET rec == fnOut[1].batch
            c == fnIn.content
            head == StructureMarker \o StructureErrorMessage(fnOut[1].parsed.err)
                    \o RawDataMarker
            tail == Drop(rec.jobDescription, Len(head))
        IN /\ rec = EmptyJob(rec.jobDescription, fnIn.url, rec.extractedAt)
           /\ StartsWith(rec.jobDescription, head)
           /\ Len(c) <= ExcerptLen => tail = c
           /\ Len(c) > ExcerptLen =>
                /\ Len(tail) = ExcerptLen + 1
                /\ \A k \in 1..ExcerptLen : tail[k] = c[k]
                /\ tail[ExcerptLen + 1] = "..."

C4_Witness ==
    /\ FnDone
    /\ fnIn.post.ok
    /\ fnIn.post.reply = <<"p", "{", "p">>
    /\ Len(fnIn.content) = ExcerptLen + 2
    /\ Len(fnOut[1].batch.jobDescription) = ExcerptLen + 4

\* C5 as stated: all degraded records of a batch, whether the fetch or the
\* structuring failed, begin with one and the same marker.
C5_OneMarker ==
    Validated =>
        \A k, m \in 1..Len(jobsData) :
            (Degraded(k) /\ Degraded(m)) =>
                Head(jobsData[k].jobDescription) = Head(jobsData[m].jobDescription)

\* C5 amended: every degraded record begins with one of two fixed markers, chosen by
\* the kind of failure: the loop's "Error processing URL: " after a fetch failure,
\* the structuring client's error heading after a structuring failure.
C5_MarkerPerFailureKind ==
    Validated =>
        \A k \in 1..Len(jobsData) :
            /\ origin[k] = "fetchFailed" => StartsWith(jobsData[k].jobDescription, LoopMarker)
            /\ origin[k] = "structureFailed" =>
                  StartsWith(jobsData[k].jobDescription, StructureMarker)

C5_Witness ==
    /\ BatchDone
    /\ N = 2
    /\ origin = <<"structureFailed", "fetchFailed">>
    /\ Head(jobsData[1].jobDescription) = Head(StructureMarker)
    /\ Head(jobsData[2].jobDescription) = Head(LoopMarker)

\* C6: whenever the fetch of a URL other than the first is in flight, the delay has
\* elapsed once for each earlier URL, whatever that URL's outcome was.
C6_DelayBeforeEveryNextFetch ==
    (Validated /\ pc = "fetching") => delays = i - 1

\* C7: in a validated batch no item's failure becomes the batch's failure: every
\* failed item has its degraded record, and the response is the spreadsheet unless
\* the report builder threw on a record that was structured successfully; a batch
\* all of whose items failed is answered with the spreadsheet.
C7_ItemFailuresNeverFailTheBatch ==
    BatchDone =>
        /\ \A k \in 1..Len(jobsData) :
              Degraded(k) =>
                 jobsData[k] = EmptyJob(jobsData[k].jobDescription, req.urls.items[k],
                                        jobsData[k].extractedAt)
        /\ \/ response = ExcelResponse
           \/ /\ response = JsonError(500, <<"Processing error: ">>
                                           \o UndefinedPropertyMessage)
              /\ \E k \in 1..Len(jobsData) :
                    origin[k] = "structured" /\ ~Has(jobsData[k], "salary")

C7_Witness ==
    /\ BatchDone
    /\ N = 2
    /\ origin = <<"fetchFailed", "structureFailed">>
    /\ lastPost = PostFailed(HttpError(402, EmptyStr))
    /\ response = ExcelResponse

\* C8: a batch request whose urls is absent, not a list or empty, or whose credential
\* is absent, and a preview request whose url is absent, is answered with status 400
\* as soon as it is handled, and no fetch, probe or structuring call is ever issued.
BadRequest ==
    \/ /\ req.route = "batch"
       /\ \/ req.urls.tag \in {"absent", "scalar"}
          \/ req.urls.items = <<>>
          \/ req.apiKey \in {Absent, EmptyStr}
    \/ /\ req.route = "preview"
       /\ req.url \in {Absent, EmptyStr}

C8_ValidationBeforeProcessing ==
    BadRequest =>
        /\ fetchCalls = <<>> /\ structCalls = <<>> /\ probeCalls = 0
        /\ jobsData = <<>>
        /\ pc \in {"start", "done"}
        /\ pc = "done" => response.status = 400

C8_Witness ==
    /\ pc = "done"
    /\ req.route = "batch"
    /\ req.urls.tag = "list" /\ Len(req.urls.items) = 2
    /\ req.apiKey = Absent
    /\ response.status = 400

(* the first balanced {...} region of a text: the leftmost "{" that some later "}"
   balances, up to that "}" *)
BalancedAt(s, a, b) == a < b /\ Balanced(SubSeq(s, a, b))
BalancedStarts(s) == {a \in 1..Len(s) : \E b \in 1..Len(s) : BalancedAt(s, a, b)}
HasRegion(s) == BalancedStarts(s) # {}
RegionStart(s) == Min(BalancedStarts(s))
RegionEnd(s) == Min({b \in 1..Len(s) : BalancedAt(s, RegionStart(s), b)})
FirstRegion(s) == SubSeq(s, RegionStart(s), RegionEnd(s))
IsText(post) == post.ok /\ post.reply # Null

\* C9 as stated: whenever the first balanced {...} region of the reply is a
\* well-formed object, whatever surrounds it, structuring succeeds with the fields of
\* that object.
C9_FirstBalancedRegionParsed ==
    (FnDone /\ IsText(fnIn.post) /\ HasRegion(fnIn.post.reply)
            /\ JsonParse(FirstRegion(fnIn.post.reply)).ok) =>
        /\ fnOut[1].parsed.ok
        /\ fnOut[1].batch =
              Merge(JsonParse(FirstRegion(fnIn.post.reply)).obj, fnIn.url,
                    fnOut[1].batch.extractedAt)

\* C9 amended: the client parses the text from the first "{" of the reply to its last
\* "}"; whenever the reply is a well-formed object surrounded by prose that has no
\* "{" before the object and no "}" after it, structuring succeeds with the fields of
\* that object.
C9_FirstToLastBraceParsed ==
    (FnDone /\ IsText(fnIn.post) /\ HasRegion(fnIn.post.reply)
            /\ JsonParse(FirstRegion(fnIn.post.reply)).ok
            /\ (\A k \in 1..(RegionStart(fnIn.post.reply) - 1) : fnIn.post.reply[k] # "{")
            /\ (\A m \in (RegionEnd(fnIn.post.reply) + 1)..Len(fnIn.post.reply) :
                   fnIn.post.reply[m] # "}")) =>
        /\ fnOut[1].parsed.ok
        /\ fnOut[1].batch =
              Merge(JsonParse(FirstRegion(fnIn.post.reply)).obj, fnIn.url,
                    fnOut[1].batch.extractedAt)

C9_Witness ==
    /\ FnDone
    /\ fnIn.post = PostOk(<<"p", "{", "F", "}", "p">>)
    /\ Has(fnOut[1].batch, "jobTitle")
    /\ fnOut[1].batch.url = fnIn.url

NoJsonIn(post) == IsText(post) /\ ~HasRegion(post.reply)
InvalidJsonIn(post) ==
    IsText(post) /\ HasRegion(post.reply) /\ ~JsonParse(FirstRegion(post.reply)).ok
LastRecord == jobsData[Len(jobsData)]

\* C10: a reply without any {...} region fails with the no-JSON-found error and a
\* reply whose region does not parse fails with the JSON syntax error; in both cases
\* the batch appends a degraded record carrying that error and the preview answers
\* with structuredData null and the error set.
C10_NoJsonAndInvalidJsonDegrade ==
    /\ (Validated /\ pc = "delay" /\ (NoJsonIn(lastPost) \/ InvalidJsonIn(lastPost))) =>
          /\ origin[Len(origin)] = "structureFailed"
          /\ LastRecord = EmptyJob(LastRecord.jobDescription, req.urls.items[i],
                                   LastRecord.extractedAt)
          /\ NoJsonIn(lastPost) =>
                StartsWith(LastRecord.jobDescription,
                           StructureMarker \o NoJsonMessage \o RawDataMarker)
          /\ InvalidJsonIn(lastPost) =>
                StartsWith(LastRecord.jobDescription,
                           StructureMarker \o SyntaxErrorMessage \o RawDataMarker)
    /\ (req.route = "preview" /\ pc = "done" /\ structCalls = <<1>>
            /\ (NoJsonIn(lastPost) \/ InvalidJsonIn(lastPost))) =>
          /\ response.status = 200
          /\ preview.structuredData = <<>>
          /\ NoJsonIn(lastPost) =>
                preview.error = <<"Structuring error: ">> \o NoJsonMessage
          /\ InvalidJsonIn(lastPost) =>
                preview.error = <<"Structuring error: ">> \o SyntaxErrorMessage

C10_Witness ==
    /\ req.route = "preview"
    /\ pc = "done"
    /\ structCalls = <<1>>
    /\ lastPost = PostOk(<<"p", "p">>)
    /\ preview.structuredData = <<>>
    /\ preview.error # Absent
ReportCalled == pc = "reportDone"
ReportBuilt == ReportCalled /\ report.ok
Records == 1..Len(jobsData)
Present(v) == v # Null /\ v # Absent

\* the top-level text fields both sheets render
RenderedFields == {"jobTitle", "companyName", "location"}

\* C11 as stated: for every result set, structured records made from an answer that
\* omits any subset of the schema fields included, the report builder does not fail
\* and emits one listing row and one detail row per record, each absent field being
\* an empty cell.
C11_ReportBuiltForEveryResultSet ==
    ReportCalled =>
        /\ report.ok
        /\ Len(report.summary) = Len(jobsData)
        /\ Len(report.detail) = Len(jobsData)
        /\ \A k \in Records : \A f \in RenderedFields :
               ~Present(Get(jobsData[k], f)) =>
                   /\ report.summary[k][f] = EmptyStr
                   /\ report.detail[k][f] = EmptyStr

GroupingFields == {"jobTitle", "location", "employmentType"}

Tally(f) ==
    IF f = "jobTitle" THEN report.jobTitles
    ELSE IF f = "location" THEN report.locations
    ELSE report.employmentTypes

RECURSIVE TallySum(_)
TallySum(tally) ==
    IF Len(tally) = 0 THEN 0 ELSE Head(tally).value.n + TallySum(Tail(tally))

AllCounts(tally) == \A j \in 1..Len(tally) : ~tally[j].value.native
RecordsWith(f) == {k \in Records : Present(Get(jobsData[k], f))}
RecordsEqualTo(f, key) == {k \in Records : Get(jobsData[k], f) = key}

\* C12 as stated: in every report, the total of the statistics equals the number of
\* detail rows, and for each grouping field the grouped counts are numbers that sum
\* to the number of records that have the field present.
C12_TotalAndGroupSums ==
    ReportBuilt =>
        /\ report.total = Len(report.detail)
        /\ \A f \in GroupingFields :
               /\ AllCounts(Tally(f))
               /\ TallySum(Tally(f)) = Cardinality(RecordsWith(f))

\* C13 as stated: in each aggregation the count reported for a key is exactly the
\* number of records whose grouping field is string-equal to the key; a record whose
\* grouping field is absent contributes to no key and still has its listing row and
\* its detail row.
C13_ExactCountPerKey ==
    ReportBuilt =>
        /\ \A f \in GroupingFields : \A j \in 1..Len(Tally(f)) :
               /\ ~Tally(f)[j].value.native
               /\ Tally(f)[j].value.n = Cardinality(RecordsEqualTo(f, Tally(f)[j].key))
               /\ Present(Tally(f)[j].key)
        /\ Len(report.summary) = Len(jobsData)
        /\ Len(report.detail) = Len(jobsData)

DetailOnlyInListing == {"salaryMin", "salaryMax", "salaryType", "employmentType", "extractedAt"}

ExtractDone == pc = "extractDone"
Cleaned == RemoveNoise(doc)
CandidateAt(n) == Candidate(Cleaned, ContentSelectors[n])
PresentCandidates == {n \in 1..Len(ContentSelectors) : CandidateAt(n) # EmptyStr}

\* C15: the extractor takes the longest candidate text over the whole selector list,
\* not the first match: of two candidates present in the cleaned document, the
\* shorter one is never the one the content is taken from, whatever their positions
\* in the list; the content is the cleaned text of a candidate no other candidate is
\* longer than.
C15_LongestCandidateSelected ==
    ExtractDone =>
        /\ \A a \in PresentCandidates : \A b \in PresentCandidates :
               Len(CandidateAt(a)) > Len(CandidateAt(b)) =>
                   extracted.selector # ContentSelectors[b]
        /\ PresentCandidates # {} =>
               \E a \in PresentCandidates :
                   /\ extracted.selector = ContentSelectors[a]
                   /\ extracted.content = CleanContent(CandidateAt(a))
                   /\ \A b \in PresentCandidates :
                          Len(CandidateAt(a)) >= Len(CandidateAt(b))

C15_Witness ==
    /\ ExtractDone
    /\ CandidateAt(1) = <<"a">>
    /\ CandidateAt(2) = <<"b", "<LF>", "<LF>", "c">>
    /\ extracted.selector = "article"
    /\ extracted.content = <<"b", " ", "c">>

\* C16 as stated: for every document, the content the extractor returns is never
\* longer than the full text of the cleaned document body, also when a selector
\* matches several elements, nested ones included, whose texts are combined.
C16_ContentWithinBodyText ==
    ExtractDone => Len(extracted.content) <= Len(TextOf(Cleaned))

PreviewRoute == req.route = "preview"
PreviewAnswered == PreviewRoute /\ pc = "done" /\ response.status = 200
ProbeReturned == PreviewRoute /\ lastProbe # NoProbe
StructuringAttempted == PreviewRoute /\ Len(structCalls) = 1 /\ structCalls[1] > 0
RawDataSent == preview.rawData = <<RawData(content, req.url)>>

\* C17: in a preview request the structuring call is attempted if and only if a
\* credential was supplied and the probe returned valid, and the probe precedes it;
\* the probe is issued only with a credential and after the raw data is in; without
\* a credential neither call is made and the response carries the raw data only:
\* structuredData null, no apiKeyValid, no error.
C17_StructuringOnlyAfterValidProbe ==
    PreviewRoute =>
        /\ StructuringAttempted =>
               /\ Truthy(req.apiKey)
               /\ probeCalls = 1
               /\ ProbeReturned /\ ValidateApiKey(lastProbe).valid
               /\ structCalls[1] = 1
        /\ (ProbeReturned /\ ValidateApiKey(lastProbe).valid) => StructuringAttempted
        /\ probeCalls > 0 => (Truthy(req.apiKey) /\ RawDataSent)
        /\ ProbeReturned => probeCalls = 1
        /\ (PreviewAnswered /\ ~Truthy(req.apiKey)) =>
               /\ probeCalls = 0
               /\ ~StructuringAttempted
               /\ RawDataSent
               /\ preview.structuredData = <<>>
               /\ preview.apiKeyValid = "unset"
               /\ preview.error = Absent

C17_Witness ==
    /\ PreviewAnswered
    /\ StructuringAttempted
    /\ lastProbe = ProbeOk(200)
    /\ Len(preview.structuredData) = 1

PaymentRequiredReason == <<"OpenRouter API: [ja] insufficient balance">>
DefaultInvalidReason == <<"Invalid API key or insufficient credits">>

\* the four kinds of failed probe the reasons tell apart: 402, 401, 429, anything else
ReasonKind(probe) ==
    IF probe.err.axios /\ probe.err.status \in {402, 401, 429}
    THEN probe.err.status
    ELSE 0

\* C18 as stated: every outcome of the probe call is returned as Valid, or as Invalid
\* with a reason.
C18_InvalidAlwaysHasReason ==
    ProbeReturned =>
        \/ ValidateApiKey(lastProbe).valid
        \/ Truthy(ValidateApiKey(lastProbe).error)

\* C18 amended: the prober never throws (the preview never answers through its outer
\* catch once the probe was issued): every failed probe call is returned as Invalid
\* with a reason, the reasons of 402, 401, 429 and any other failure being pairwise
\* distinct, and a 402 makes the preview carry apiKeyValid = false with the
\* payment-required reason as its error; a probe call answered with a success status
\* other than 200 is returned as Invalid without a reason, and the preview then
\* carries the default reason.
C18_ProbeOutcomeClassified ==
    ProbeReturned =>
        LET v == ValidateApiKey(lastProbe)
        IN /\ response.status \in {0, 200}
           /\ preview.apiKeyValid = (IF v.valid THEN "true" ELSE "false")
           /\ v.valid <=> (lastProbe.ok /\ lastProbe.status = 200)
           /\ ~lastProbe.ok =>
                  /\ Truthy(v.error)
                  /\ preview.error = v.error
                  /\ PreviewAnswered
                  /\ \A q \in Probes :
                         (~q.ok /\ ReasonKind(q) # ReasonKind(lastProbe)) =>
                             ValidateApiKey(q).error # v.error
           /\ (lastProbe.ok /\ ~v.valid) =>
                  /\ v.error = Absent
                  /\ preview.error = DefaultInvalidReason
           /\ (~lastProbe.ok /\ ReasonKind(lastProbe) = 402) =>
                  /\ preview.apiKeyValid = "false"
                  /\ preview.error = PaymentRequiredReason

C18_Witness ==
    /\ PreviewAnswered
    /\ lastProbe = ProbeFailed(HttpError(402, EmptyStr))
    /\ preview.apiKeyValid = "false"
    /\ preview.error = PaymentRequiredReason
    /\ RawDataSent

\* C19: in a preview request whose fetch succeeded and whose probe was valid, a
\* failure of the structuring call (HTTP error, transport failure, no JSON in the
\* reply, unparsable JSON) never loses the raw content: the response is a success
\* with the complete raw data, structuredData null, and error and apiKeyValid set.
C19_StructuringFailureKeepsRawData ==
    (PreviewRoute /\ pc = "done" /\ StructuringAttempted /\ ~ParseReply(lastPost).ok) =>
        /\ response.status = 200
        /\ RawDataSent
        /\ preview.rawData[1].contentLength = Len(content)
        /\ preview.structuredData = <<>>
        /\ Truthy(preview.error)
        /\ preview.error = PreviewErrorMessage(ParseReply(lastPost).err)
        /\ preview.apiKeyValid = "true"

C19_Witness ==
    /\ PreviewAnswered
    /\ StructuringAttempted
    /\ lastPost = PostOk(<<"p", "p">>)
    /\ content = Str(2)
    /\ RawDataSent
    /\ preview.structuredData = <<>>
    /\ preview.error = <<"Structuring error: ">> \o NoJsonMessage

\* C20 as stated: a batch over any finite URL list eventually completes, also when a
\* page fetch or a structuring call never receives an answer, each of these calls
\* being bounded by a timeout.
C20_BatchEventuallyCompletes ==
    (req.route = "batch") ~> (pc = "done")

BatchRoute == req.route = "batch"
UrlIndexes == 1..Len(fetchCalls)

\* a call of URL k is in flight from its issue until the await on it settles: a
\* fetch until its record is appended or its structuring call is issued, a
\* structuring call until its record is appended
FetchInFlight(k) == fetchCalls[k] > 0 /\ structCalls[k] = 0 /\ Len(jobsData) < k
StructuringInFlight(k) == structCalls[k] > 0 /\ Len(jobsData) < k
CallsInFlight ==
    {<<"fetch", k>> : k \in {j \in UrlIndexes : FetchInFlight(j)}}
    \cup {<<"structuring", k>> : k \in {j \in UrlIndexes : StructuringInFlight(j)}}

\* C21: within one batch run the URLs are processed strictly sequentially: at every
\* moment at most one outbound call of the run, page fetch or structuring call, is
\* in flight, and the fetch of URL k+1 starts only after the record of URL k has
\* been appended to the result sequence.
C21_OneCallInFlight ==
    BatchRoute =>
        /\ Cardinality(CallsInFlight) <= 1
        /\ (pc \in {"fetching", "structuring"}) <=> (Cardinality(CallsInFlight) = 1)
        /\ \A k \in UrlIndexes : fetchCalls[k] > 0 => Len(jobsData) >= k - 1
        /\ \A k \in UrlIndexes : structCalls[k] > 0 => Len(jobsData) >= k - 1

C21_Witness ==
    /\ BatchRoute
    /\ N = 2
    /\ Len(jobsData) = 1
    /\ origin = <<"structured">>
    /\ CallsInFlight = {<<"fetch", 2>>}

\* where URL k is on its way: Pending until its fetch has succeeded, Extracted while
\* its structuring call is out (the fetched page is extracted in the same step), then
\* Structured or Degraded for good
UrlState(k) ==
    IF k <= Len(jobsData)
    THEN (IF origin[k] = "structured" THEN "Structured" ELSE "Degraded")
    ELSE IF structCalls[k] > 0 THEN "Extracted"
    ELSE "Pending"

UrlMoves ==
    {<<"Pending", "Extracted">>, <<"Pending", "Degraded">>,
     <<"Extracted", "Structured">>, <<"Extracted", "Degraded">>}

OneAttemptPerUrl ==
    BatchRoute =>
        \A k \in UrlIndexes :
            /\ fetchCalls[k] <= 1
            /\ structCalls[k] <= 1
            /\ structCalls[k] = 1 => fetchCalls[k] = 1
            /\ k <= Len(jobsData) =>
                   /\ fetchCalls[k] = 1
                   /\ (origin[k] = "fetchFailed") <=> (structCalls[k] = 0)

RecordsNeverRevisited ==
    BatchRoute =>
        /\ Len(jobsData') \in {Len(jobsData), Len(jobsData) + 1}
        /\ \A k \in 1..Len(jobsData) :
               jobsData'[k] = jobsData[k] /\ origin'[k] = origin[k]
        /\ \A k \in UrlIndexes :
               \/ UrlState(k)' = UrlState(k)
               \/ <<UrlState(k), UrlState(k)'>> \in UrlMoves

\* C22: in a batch each URL moves only along Pending -> Fetched -> Extracted ->
\* Structured or Degraded, or Pending -> Degraded on a fetch failure: exactly one
\* fetch attempt per URL, at most one structuring call per URL and only after its
\* fetch succeeded, no call retried after a failure, and a record once appended is
\* never changed or replaced.
C22_UrlStateMachine ==
    []OneAttemptPerUrl /\ [][RecordsNeverRevisited]_vars

C22_Witness ==
    /\ BatchDone
    /\ N = 2
    /\ origin = <<"fetchFailed", "structureFailed">>
    /\ fetchCalls = <<1, 1>>
    /\ structCalls = <<0, 1>>
    /\ UrlState(1) = "Degraded" /\ UrlState(2) = "Degraded"

\* C23 as stated: before a batch starts processing its URLs the credential is probed
\* with the credential prober, so that no page is fetched for a batch whose
\* credential the probe would classify as invalid: a page fetch of a batch is
\* issued only after a probe call.
C23_BatchProbedBeforeFetching ==
    BatchRoute => \A k \in UrlIndexes : fetchCalls[k] > 0 => probeCalls > 0

RawDone == pc = "rawDone"
FullContent == ExtractContent(BodyNodes(doc)).content
AllSubHeadings == SubHeadings(RemoveNoise(doc))

\* C24 as stated: every RawExtraction returned, by the extraction request as well as
\* by the preview request, has contentLength = length of content, content being the
\* full normalized text of the selected region, and at most 5 sub-headings; the two
\* requests return the same content for the same markup.
C24_SameRawExtraction ==
    RawDone =>
        /\ \A r \in {extracted.preview, extracted.extract} :
               /\ "contentLength" \in DOMAIN r
               /\ r.contentLength = Len(r.content)
               /\ r.content = FullContent
               /\ Len(r.h2Elements) <= SubHeadingCap
        /\ extracted.preview.content = extracted.extract.content

\* C24 amended: the preview request returns contentLength = length of content,
\* content being the full normalized text of the selected region; the extraction
\* request returns no contentLength, and its content is the normalized text cut to
\* its first ContentLimit characters followed by "..." when it is longer than
\* ContentLimit; both return the first SubHeadingCap sub-headings at most, the same
\* title, first heading and url, and the same content exactly when the normalized
\* text is at most ContentLimit characters long.
C24_RawExtractionPerRoute ==
    RawDone =>
        LET p == extracted.preview
            e == extracted.extract
        IN /\ p.contentLength = Len(p.content)
           /\ p.content = FullContent
           /\ "contentLength" \notin DOMAIN e
           /\ e.content = (IF Len(FullContent) > ContentLimit
                           THEN SubSeq(FullContent, 1, ContentLimit) \o <<"...">>
                           ELSE FullContent)
           /\ (p.content = e.content) <=> (Len(FullContent) <= ContentLimit)
           /\ Len(p.h2Elements) <= SubHeadingCap
           /\ p.h2Elements = e.h2Elements
           /\ \A k \in 1..Len(p.h2Elements) : p.h2Elements[k] = AllSubHeadings[k]
           /\ Len(AllSubHeadings) >= SubHeadingCap => Len(p.h2Elements) = SubHeadingCap
           /\ p.title = e.title /\ p.h1 = e.h1
           /\ p.url = req.url /\ e.url = req.url

C24_Witness ==
    /\ RawDone
    /\ Len(AllSubHeadings) = SubHeadingCap + 1
    /\ Len(extracted.preview.h2Elements) = SubHeadingCap
    /\ extracted.preview.contentLength = ContentLimit + 1
    /\ Len(extracted.extract.content) = ContentLimit + 1
    /\ extracted.extract.content[ContentLimit + 1] = "..."
    /\ extracted.preview.h1 = <<"H", "1">>
    /\ extracted.preview.title = <<"t">>

NormalizeDone == pc = "normalizeDone"
InputText == TextOf(doc)

NoEdgeWhitespace(s) ==
    Len(s) > 0 => (s[1] \notin Whitespace /\ s[Len(s)] \notin Whitespace)
NoWhitespacePair(s) ==
    \A k \in 1..(Len(s) - 1) : ~(s[k] \in Whitespace /\ s[k + 1] \in Whitespace)

\* a run of newlines and nothing else between two characters that are not white space
NewlineRunInside(s) ==
    \E a \in 1..Len(s) : \E b \in a..Len(s) :
        /\ a > 1 /\ b < Len(s)
        /\ s[a - 1] \notin Whitespace /\ s[b + 1] \notin Whitespace
        /\ \A k \in a..b : s[k] = "<LF>"

HasNewline(s) == \E k \in 1..Len(s) : s[k] = "<LF>"

\* C25 as stated: the normalization yields, for every input text, a string with no
\* leading or trailing white space and no two consecutive white-space characters, in
\* which a run of newlines of the input is collapsed to one newline; applied to its
\* own output it changes nothing.
C25_NormalizationKeepsOneNewline ==
    NormalizeDone =>
        /\ NoEdgeWhitespace(extracted.content)
        /\ NoWhitespacePair(extracted.content)
        /\ NewlineRunInside(InputText) => HasNewline(extracted.content)
        /\ CleanContent(extracted.content) = extracted.content

CredentialMessages ==
    {<<"OpenRouter API: Invalid API key.">>,
     <<"OpenRouter API: Payment required. Please check your account balance.">>,
     <<"OpenRouter API: Rate limit exceeded. Please try again later.">>}

\* C26 as stated: in a batch, the diagnostic of a record degraded by a page-fetch
\* failure never classifies the failure as a credential error of the structuring
\* service: whatever HTTP status the scraped site answered with, 401, 402 and 429
\* included, the jobDescription does not report an invalid API key, an exhausted
\* balance or a rate limit of the structuring service.
C26_FetchFailureNotCredentialError ==
    BatchRoute =>
        \A k \in 1..Len(jobsData) :
            origin[k] = "fetchFailed" =>
                \A msg \in CredentialMessages :
                    jobsData[k].jobDescription # LoopMarker \o msg

====
